---- MODULE Spec2Model ----
(***************************************************************************)
(* Iteration-timeline reconstruction of visualizing_jobs/print-iterations. *)
(* parse_iteration_log reads the per-process log files of one simulation   *)
(* run and builds, per job, the sequence of (iter, time, iter_time,        *)
(* skipped) entries; correct_time_due_suspension then removes suspended    *)
(* time from the iteration that follows each resume.                       *)
(*                                                                         *)
(* Representation.  A log file is a sequence of lines; a line is a record  *)
(* holding the fields the two regular expressions capture.  Timestamps in  *)
(* the log are naturals; every float64 value the code derives from them    *)
(* (means, differences) is kept as an exact multiple of 1/TimeScale, so a  *)
(* derived value v is stored as the integer v * TimeScale.  Rounding of    *)
(* float64 arithmetic is outside the model.  Python positions are 0-based, *)
(* positions of TLA+ sequences 1-based: Python position p is position p+1. *)
(***************************************************************************)
EXTENDS Integers, Sequences, FiniteSets, TLC

\* ---------------------------------------------------------------- bounds
MaxIter == 2     \* iteration numbers 0..MaxIter
MaxTime == 2     \* logged timestamps and resume times 0..MaxTime

Jobs == {0, 1}          \* job ids
Iters == 0..MaxIter
Times == 0..MaxTime
LineCounts == 0..3      \* lines of a generated corpus, over all its files
FileCounts == 1..2      \* log files of a generated corpus

\* ------------------------------------------------------------ arithmetic
RECURSIVE GCD(_, _)
GCD(a, b) == IF b = 0 THEN a ELSE GCD(b, a % b)

RECURSIVE LcmUpTo(_)
LcmUpTo(n) == IF n <= 1 THEN 1 ELSE LET l == LcmUpTo(n - 1) IN (l * n) \div GCD(l, n)

Min(S) == CHOOSE x \in S : \A y \in S : x <= y
Max(S) == CHOOSE x \in S : \A y \in S : x >= y

\* A group of records of a generated corpus has at most Max(LineCounts)
\* members, so every mean is an exact multiple of 1/TimeScale.
TimeScale == LcmUpTo(Max(LineCounts))

RECURSIVE SumSeq(_)
SumSeq(s) == IF s = <<>> THEN 0 ELSE Head(s) + SumSeq(Tail(s))

RECURSIVE SortedSeq(_)
\* The elements of a finite set of integers, ascending.
SortedSeq(S) == IF S = {} THEN <<>> ELSE LET m == Min(S) IN <<m>> \o SortedSeq(S \ {m})

Range(s) == {s[i] : i \in 1..Len(s)}

RECURSIVE FlattenSeq(_)
FlattenSeq(ss) == IF ss = <<>> THEN <<>> ELSE Head(ss) \o FlattenSeq(Tail(ss))

\* ----------------------------------------------------------------- lines
IterLine(s, it, j, t) ==
    [kind |-> "ITERATION", skipped |-> s, iter |-> it, job |-> j, time |-> t]
SuspLine(j, t) ==
    [kind |-> "SUSPENDED", skipped |-> FALSE, iter |-> 0, job |-> j, time |-> t]
\* A line neither regular expression matches.
OtherLine ==
    [kind |-> "OTHER", skipped |-> FALSE, iter |-> 0, job |-> 0, time |-> 0]

\* A suspension line whose word SUSPENDED is the first of the line: the
\* suspension pattern opens with a space, the character before the word is a
\* newline or the start of the file, and neither pattern matches the line.
BareSuspLine(j, t) ==
    [kind |-> "SUSPENDED_AT_LINE_START", skipped |-> FALSE, iter |-> 0, job |-> j, time |-> t]

IterLines == {IterLine(s, it, j, t) : s \in BOOLEAN, it \in Iters, j \in Jobs, t \in Times}
SuspLines == {SuspLine(j, t) : j \in Jobs, t \in Times}
Lines == IterLines \cup SuspLines \cup {OtherLine}

\* ------------------------------------------------------- log line parsing
\* np.fromregex(log_file, log_pattern, [skipped, iter, job, time]): one
\* structured element per line the iteration pattern matches, in file order.
IterRecord(l) == [skipped |-> l.skipped, iter |-> l.iter, job |-> l.job, time |-> l.time]

\* Variant of FromRegexIters: a pattern loose enough to yield an element for
\* every line that is not a suspension line.
FromRegexLoose(log_file) ==
    LET matched == SelectSeq(log_file, LAMBDA l : l.kind # "SUSPENDED")
    IN [i \in 1..Len(matched) |-> IterRecord(matched[i])]

FromRegexIters(log_file) ==
    LET matched == SelectSeq(log_file, LAMBDA l : l.kind = "ITERATION")
    IN [i \in 1..Len(matched) |-> IterRecord(matched[i])]

\* find_suspended_timestamps: np.unique sorts the (job, time) pairs and drops
\* duplicates; the returned dict has a key for every job with a suspension
\* line in this file and maps it to that file's resume times, ascending.
find_suspended_timestamps(log_file) ==
    LET susp_iters == {<<log_file[i].job, log_file[i].time>> :
                          i \in {k \in 1..Len(log_file) : log_file[k].kind = "SUSPENDED"}}
        jobsOf == {p[1] : p \in susp_iters}
    IN [job \in jobsOf |-> SortedSeq({p[2] : p \in {q \in susp_iters : q[1] = job}})]

\* restarted_at |= other: the in-place dict union; a key of `other` replaces
\* the value the dict held for that key.
DictUpdate(d, other) ==
    [k \in DOMAIN d \cup DOMAIN other |-> IF k \in DOMAIN other THEN other[k] ELSE d[k]]

\* restarted_at[job] on a defaultdict(list): a missing key reads as [].
DictGet(d, job) == IF job \in DOMAIN d THEN d[job] ELSE <<>>

EmptyDict == [k \in {} |-> <<>>]

\* ----------------------------------------------------- per-job aggregation
\* np.unique(log_iters['job'])
UniqueJobs(log) == SortedSeq({log[i].job : i \in 1..Len(log)})

RECURSIVE SortInts(_)
\* The entries of a sequence of integers, ascending, duplicates kept.
SortInts(s) ==
    IF s = <<>> THEN <<>>
    ELSE LET m == Min(Range(s))
             at == Min({i \in 1..Len(s) : s[i] = m})
         IN <<m>> \o SortInts(SubSeq(s, 1, at - 1) \o SubSeq(s, at + 1, Len(s)))

\* Variant of Iterations: np.sort in place of np.unique, duplicates kept.
IterationsNotUnique(log, job) ==
    LET mine == SelectSeq(log, LAMBDA r : r.job = job)
    IN SortInts([i \in 1..Len(mine) |-> mine[i].iter])

\* np.unique(log_iters[log_iters['job'] == job]['iter'])
Iterations(log, job) ==
    SortedSeq({log[i].iter : i \in {k \in 1..Len(log) : log[k].job = job}})

\* Variant of Mean: the quotient is taken with integer division (`//`).
MeanFloor(ts) == (SumSeq(ts) \div Len(ts)) * TimeScale

\* np.mean of a non-empty sequence of logged timestamps, in units of 1/TimeScale.
Mean(ts) == (SumSeq(ts) * TimeScale) \div Len(ts)

\* Variant of get_avg_for_iters: the records are matched on the iteration
\* number alone, whatever their job.
get_avg_any_job(log, job, it) ==
    LET matched_iters == SelectSeq(log, LAMBDA r : r.iter = it)
    IN Mean([i \in 1..Len(matched_iters) |-> matched_iters[i].time])

\* get_avg_for_iters(job)(it)
get_avg_for_iters(log, job, it) ==
    LET matched_iters == SelectSeq(log, LAMBDA r : r.job = job /\ r.iter = it)
    IN Mean([i \in 1..Len(matched_iters) |-> matched_iters[i].time])

AvgTimestamp(log, job) ==
    LET iterations == Iterations(log, job)
    IN [i \in 1..Len(iterations) |-> get_avg_for_iters(log, job, iterations[i])]

\* Variant of AvgIterTime: the copy is kept, the subtraction left out.
AvgIterTimeNoDiff(avg_timestamp) == [i \in 1..Len(avg_timestamp) |-> avg_timestamp[i]]

\* Variant of AvgIterTime: np.diff with a leading zero, the first duration is 0.
AvgIterTimeFirstZero(avg_timestamp) ==
    [i \in 1..Len(avg_timestamp) |->
        IF i = 1 THEN 0 ELSE avg_timestamp[i] - avg_timestamp[i - 1]]

\* avg_iter_time = avg_timestamp.copy(); avg_iter_time[1:] -= avg_timestamp[:-1]
AvgIterTime(avg_timestamp) ==
    [i \in 1..Len(avg_timestamp) |->
        IF i = 1 THEN avg_timestamp[1] ELSE avg_timestamp[i] - avg_timestamp[i - 1]]

\* Variant of MarkedSkipped: the marker is looked up among the records of the
\* iteration number, whatever their job.
MarkedSkippedAnyJob(log, job) ==
    LET iterations == Iterations(log, job)
    IN [i \in 1..Len(iterations) |->
          \E k \in 1..Len(log) : log[k].iter = iterations[i] /\ log[k].skipped]

\* Variant of MarkedSkipped: np.all in place of np.any, the position is
\* marked only when every record of the group carries the marker.
MarkedSkippedAll(log, job) ==
    LET iterations == Iterations(log, job)
    IN [i \in 1..Len(iterations) |->
          \A k \in 1..Len(log) :
              (log[k].job = job /\ log[k].iter = iterations[i]) => log[k].skipped]

\* np.any(log_iters_job[log_iters_job['iter'] == it]['skipped']) per iteration
MarkedSkipped(log, job) ==
    LET iterations == Iterations(log, job)
    IN [i \in 1..Len(iterations) |->
          \E k \in 1..Len(log) :
              log[k].job = job /\ log[k].iter = iterations[i] /\ log[k].skipped]

\* Variant of ToRem: `to_rem[0] = 0` left out.
ToRemKeepFirst(iterations) ==
    [i \in 1..Len(iterations) |->
        IF i = 1 THEN iterations[1] ELSE iterations[i] - (iterations[i - 1] + 1)]

\* Variant of ToRem: to_rem[1:] -= to_rem[:-1], the `+ 1` left out.
ToRemNoPlusOne(iterations) ==
    [i \in 1..Len(iterations) |->
        IF i = 1 THEN 0 ELSE iterations[i] - iterations[i - 1]]

\* to_rem = iterations.copy(); to_rem[1:] -= to_rem[:-1] + 1; to_rem[0] = 0
\* (the right-hand side is evaluated into a temporary before the subtraction)
ToRem(iterations) ==
    [i \in 1..Len(iterations) |->
        IF i = 1 THEN 0 ELSE iterations[i] - (iterations[i - 1] + 1)]

\* skipped[to_rem != 0] = 1
Skipped(log, job) ==
    LET marked == MarkedSkipped(log, job)
        to_rem == ToRem(Iterations(log, job))
    IN [i \in 1..Len(marked) |-> IF to_rem[i] # 0 THEN TRUE ELSE marked[i]]

\* The structured array `combined` as parse_iteration_log fills it, before
\* correct_time_due_suspension runs; avg_iter_time[skipped] = 0 included.
Combined(log, job) ==
    LET iterations == Iterations(log, job)
        avg_timestamp == AvgTimestamp(log, job)
        avg_iter_time == AvgIterTime(avg_timestamp)
        skipped == Skipped(log, job)
    IN [i \in 1..Len(iterations) |->
          [iter |-> iterations[i],
           time |-> avg_timestamp[i],
           iter_time |-> IF skipped[i] THEN 0 ELSE avg_iter_time[i],
           skipped |-> skipped[i]]]

\* Variant of IndicesAfter: `<` in place of `<=`, a position whose time equals
\* the resume time counts as later.
IndicesAtOrAfter(job_info, rstr) ==
    {i \in 1..Len(job_info) : ~(job_info[i].time < rstr * TimeScale)}

\* --------------------------------------------------- suspension correction
\* np.where(np.bitwise_not(job_info['time'] <= rstr))
IndicesAfter(job_info, rstr) ==
    {i \in 1..Len(job_info) : ~(job_info[i].time <= rstr * TimeScale)}

\* Variant of CorrectOne: the commented-out statement of the loop body,
\* job_info['time'][rstr_ind] += rstr, is executed as well.
CorrectOneShiftTime(job_info, rstr) ==
    LET indices == IndicesAfter(job_info, rstr)
    IN IF indices = {}
       THEN [raised |-> FALSE, job_info |-> job_info]
       ELSE LET rstr_ind == Min(indices)
            IN IF ~(rstr_ind > 1)
               THEN [raised |-> TRUE, job_info |-> job_info]
               ELSE LET offset == rstr * TimeScale - job_info[rstr_ind - 1].time
                    IN [raised |-> FALSE,
                        job_info |-> [job_info EXCEPT ![rstr_ind].iter_time = @ - offset,
                                                      ![rstr_ind].time = @ + rstr * TimeScale]]

\* Variant of CorrectOne: the offset is measured from the time of position
\* rstr_ind itself instead of the position before it.
CorrectOneFromTarget(job_info, rstr) ==
    LET indices == IndicesAfter(job_info, rstr)
    IN IF indices = {}
       THEN [raised |-> FALSE, job_info |-> job_info]
       ELSE LET rstr_ind == Min(indices)
            IN IF ~(rstr_ind > 1)
               THEN [raised |-> TRUE, job_info |-> job_info]
               ELSE LET offset == rstr * TimeScale - job_info[rstr_ind].time
                    IN [raised |-> FALSE,
                        job_info |-> [job_info EXCEPT ![rstr_ind].iter_time = @ - offset]]

\* Variant of CorrectOne: `+=` in place of `-=`, the offset is added.
CorrectOneAddOffset(job_info, rstr) ==
    LET indices == IndicesAfter(job_info, rstr)
    IN IF indices = {}
       THEN [raised |-> FALSE, job_info |-> job_info]
       ELSE LET rstr_ind == Min(indices)
            IN IF ~(rstr_ind > 1)
               THEN [raised |-> TRUE, job_info |-> job_info]
               ELSE LET offset == rstr * TimeScale - job_info[rstr_ind - 1].time
                    IN [raised |-> FALSE,
                        job_info |-> [job_info EXCEPT ![rstr_ind].iter_time = @ + offset]]

\* Variant of CorrectOne: the corrected duration is assigned as the time from
\* the resume to the position, not subtracted from the duration held so far.
CorrectOneAssign(job_info, rstr) ==
    LET indices == IndicesAfter(job_info, rstr)
    IN IF indices = {}
       THEN [raised |-> FALSE, job_info |-> job_info]
       ELSE LET rstr_ind == Min(indices)
            IN IF ~(rstr_ind > 1)
               THEN [raised |-> TRUE, job_info |-> job_info]
               ELSE [raised |-> FALSE,
                     job_info |-> [job_info EXCEPT ![rstr_ind].iter_time =
                                      job_info[rstr_ind].time - rstr * TimeScale]]

\* One pass of the loop body of correct_time_due_suspension for the resume
\* time rstr.  raised: the assertion `rstr_ind > 0` failed.
CorrectOne(job_info, rstr) ==
    LET indices == IndicesAfter(job_info, rstr)
    IN IF indices = {}
       THEN [raised |-> FALSE, job_info |-> job_info]
       ELSE LET rstr_ind == Min(indices)
            IN IF ~(rstr_ind > 1)
               THEN [raised |-> TRUE, job_info |-> job_info]
               ELSE LET offset == rstr * TimeScale - job_info[rstr_ind - 1].time
                    IN [raised |-> FALSE,
                        job_info |-> [job_info EXCEPT ![rstr_ind].iter_time = @ - offset]]

\* ---------------------------------------------------------------- corpora
RECURSIVE SetToSeq(_)
SetToSeq(S) ==
    IF S = {} THEN <<>> ELSE LET x == CHOOSE y \in S : TRUE IN <<x>> \o SetToSeq(S \ {x})

\* The line universe in one fixed order; the lines of a generated file appear
\* in this order.
LineOrder == SetToSeq(Lines)
\* The lines that name job 0 or no job.
LineOrderJob0 == SetToSeq({l \in Lines : l.job = 0})

\* The non-decreasing sequences of n indices lo..hi.
RECURSIVE SortedIdxSeqs(_, _, _)
SortedIdxSeqs(n, lo, hi) ==
    IF n = 0 THEN {<<>>}
    ELSE UNION {{<<k>> \o s : s \in SortedIdxSeqs(n - 1, k, hi)} : k \in lo..hi}

\* The corpus of k files in which line order[s[i]] is written to file a[i].
Split(order, s, a, k) ==
    [f \in 1..k |->
        LET idx == SelectSeq([i \in 1..Len(s) |-> i], LAMBDA i : a[i] = f)
        IN [j \in 1..Len(idx) |-> order[s[idx[j]]]]]

\* The corpora of k files and n lines, the lines taken from `order`.
SmallCorpora(order, k, n) ==
    {Split(order, s, a, k) : a \in [1..n -> 1..k], s \in SortedIdxSeqs(n, 1, Len(order))}

\* The worked examples of the specification, one file each.
GapExample ==
    <<<<IterLine(FALSE, 0, 0, 0), IterLine(FALSE, 1, 0, 1), IterLine(FALSE, 2, 0, 2),
        IterLine(FALSE, 5, 0, 5), IterLine(FALSE, 6, 0, 6)>>>>
SuspensionExample ==
    <<<<IterLine(FALSE, 0, 0, 0), IterLine(FALSE, 1, 0, 10), SuspLine(0, 20),
        IterLine(FALSE, 2, 0, 30)>>>>
\* Two ranks, one file each, report (job 1, iteration 4) at 100 and at 104.
MeanExample ==
    <<<<IterLine(FALSE, 3, 1, 90), IterLine(FALSE, 4, 1, 100), IterLine(FALSE, 4, 0, 7)>>,
      <<IterLine(FALSE, 3, 1, 90), IterLine(TRUE, 4, 1, 104)>>>>

\* The end-to-end example, every line starting at the beginning of its line.
EndToEndExample ==
    <<<<IterLine(FALSE, 0, 1, 0), IterLine(FALSE, 1, 1, 50), BareSuspLine(1, 20),
        IterLine(FALSE, 2, 1, 80)>>>>

\* One file of a job suspended twice: three iteration lines and two suspension
\* lines of job 0, their timestamps in 0..ResumeSpan.
ResumeSpan == MaxTime + 2
TwoResumeCorpora ==
    {<<<<IterLine(FALSE, 0, 0, t0), IterLine(FALSE, 1, 0, t1), IterLine(FALSE, 2, 0, t2),
         SuspLine(0, r1), SuspLine(0, r2)>>>> :
        t0 \in 0..1, t1 \in 0..ResumeSpan, t2 \in 0..ResumeSpan,
        r1 \in 0..ResumeSpan, r2 \in 0..ResumeSpan}

\* Job 0 resumes at 5 and at 20; a second rank, in a second file, reports the
\* resume at 20 once more.
DuplicateResumeExample ==
    <<<<IterLine(FALSE, 0, 0, 0), IterLine(FALSE, 1, 0, 10), IterLine(FALSE, 2, 0, 30),
        SuspLine(0, 5), SuspLine(0, 20)>>,
      <<SuspLine(0, 20)>>>>

\* Two suspended jobs in one file, their records interleaved.
TwoJobsExample ==
    <<<<IterLine(FALSE, 0, 0, 0), IterLine(FALSE, 0, 1, 2), SuspLine(1, 4),
        SuspLine(0, 5), IterLine(TRUE, 1, 1, 7), IterLine(FALSE, 1, 0, 10)>>>>

ExampleCorpora ==
    {GapExample, SuspensionExample, MeanExample, EndToEndExample, DuplicateResumeExample,
     TwoJobsExample}

\* ------------------------------------------------------------------ state
VARIABLES
    log_files,       \* the corpus: the log files in the order glob returned them
    pc,              \* "read" | "jobs" | "correct" | "done" | "raised"
    file_i,          \* next file of the loop over log_file_names
    log_iters_list,  \* the per-file arrays read so far
    restarted_at,    \* dict job -> list of resume times
    log_iters,       \* np.concat(log_iters_list)
    job_i,           \* next job of the loop over np.unique(log_iters['job'])
    combined,        \* the structured array of the job being built
    rstr_i,          \* next resume time of the loop in correct_time_due_suspension
    jobs,            \* dict job -> finished structured array
    parsed_logs,     \* the dict parse_iteration_log returned
    raised           \* the exception that ended parse_iteration_log, "" if none

\* The consumers of the parsed timelines.
VARIABLES
    summary,               \* the rows of <saveas>_iteration_summary.csv, by job
    jobs_order_to_print,   \* sorted(parsed_logs.keys(), key=key_jobs, reverse=True)
    boxes                  \* dict job -> the rectangles plot_sequence added for it

consumer_vars == <<summary, jobs_order_to_print, boxes>>

\* The writers of workloads-allocation.conf.
VARIABLES
    alloc_writer,   \* which writer runs: "mpi_replay" | "dfly72" | "stress"
    alloc_nodes,    \* job.nodes of the jobs, in the order of workloads-settings.conf
    all_nodes,      \* the node ids the lines are cut from
    alloc_idx,      \* idx
    alloc_lines,    \* lines: one list of node ids per job
    alloc_pc,       \* "idle" | "start" | "loop" | "written" | "raised"
    alloc_raised    \* the exception raised, "" if none

alloc_vars == <<alloc_writer, alloc_nodes, all_nodes, alloc_idx, alloc_lines, alloc_pc,
                alloc_raised>>

\* No allocation writer is running.
AllocIdle ==
    /\ alloc_writer = ""
    /\ alloc_nodes = <<>>
    /\ all_nodes = <<>>
    /\ alloc_idx = 0
    /\ alloc_lines = <<>>
    /\ alloc_pc = "idle"
    /\ alloc_raised = ""

\* TestRunner.run_tests.
VARIABLES
    runner,              \* which TestRunner runs: "mpi_replay" | "dfly72"
    experiments,         \* the list handed to run_tests
    exp_i,               \* position of the loop over experiments
    var_i,               \* position of the loop over the variations of experiments[exp_i]
    failed_experiments,  \* self.failed_experiments
    interrupted,         \* self.interrupted
    started,             \* the simulations started so far, with their outcomes
    runner_pc,           \* "idle" | "tests" | "variations" | "done" | "raised" | "exited"
    runner_raised        \* the exception that left run_tests, "" if none

runner_vars == <<runner, experiments, exp_i, var_i, failed_experiments, interrupted, started,
                 runner_pc, runner_raised>>

\* No test runner is running.
RunnerIdle ==
    /\ runner = ""
    /\ experiments = <<>>
    /\ exp_i = 1
    /\ var_i = 1
    /\ failed_experiments = <<>>
    /\ interrupted = FALSE
    /\ started = <<>>
    /\ runner_pc = "idle"
    /\ runner_raised = ""

\* Execute.__call__.
VARIABLES
    cwd,               \* the working directory of the process, as path components
    environ,           \* os.environ
    env_vars,          \* self.env_vars
    original_cwd,      \* original_cwd of execution_context
    original_env,      \* original_env of execution_context
    process,           \* Execute.process: "None" or the handle of the simulation
    logger_process,    \* MemoryLogger.process: "None" or the handle of the logger
    exec_interrupted,  \* Execute.interrupted
    exec_pc,           \* "idle" | "call" | "body" | "finally" | "returned" | "raised"
    exec_result        \* what __call__ returns or raises, "" before

exec_vars == <<cwd, environ, env_vars, original_cwd, original_env, process, logger_process,
               exec_interrupted, exec_pc, exec_result>>

\* No Execute is being called.
ExecIdle ==
    /\ cwd = <<>>
    /\ environ = <<>>
    /\ env_vars = <<>>
    /\ original_cwd = <<>>
    /\ original_env = <<>>
    /\ process = "None"
    /\ logger_process = "None"
    /\ exec_interrupted = FALSE
    /\ exec_pc = "idle"
    /\ exec_result = ""

\* The construction of jobs and experiments.
VARIABLES
    instance_counter,  \* _instance_counter of each job class
    used_key_names,    \* _used_key_names of each job class
    new_jobs,          \* the jobs constructed since the last Experiment, in order
    built,             \* the number of experiments constructed so far
    names_pc           \* "idle" | "script"

names_vars == <<instance_counter, used_key_names, new_jobs, built, names_pc>>

\* No experiment script is running.
NamesIdle ==
    /\ instance_counter = <<>>
    /\ used_key_names = <<>>
    /\ new_jobs = <<>>
    /\ built = 0
    /\ names_pc = "idle"

\* The programs other than print-iterations.py, and their being idle.
other_programs == <<alloc_vars, runner_vars, exec_vars, names_vars>>
OtherProgramsIdle == AllocIdle /\ RunnerIdle /\ ExecIdle /\ NamesIdle

parse_vars == <<log_files, pc, file_i, log_iters_list, restarted_at, log_iters, job_i,
                combined, rstr_i, jobs, parsed_logs, raised>>

\* The variables parse_iteration_log and the first lines of __main__ leave alone.
beyond_parse == <<consumer_vars, other_programs>>

\* The variables each of the other programs leaves alone.
beyond_alloc == <<parse_vars, consumer_vars, runner_vars, exec_vars, names_vars>>
beyond_runner == <<parse_vars, consumer_vars, alloc_vars, exec_vars, names_vars>>
beyond_exec == <<parse_vars, consumer_vars, alloc_vars, runner_vars, names_vars>>
beyond_names == <<parse_vars, consumer_vars, alloc_vars, runner_vars, exec_vars>>

vars == <<log_files, pc, file_i, log_iters_list, restarted_at, log_iters, job_i,
          combined, rstr_i, jobs, parsed_logs, raised, beyond_parse>>

Init ==
    /\ \/ log_files = <<>>    \* glob matched no file
       \/ \E n \in LineCounts : log_files \in SmallCorpora(LineOrder, 1, n)
       \/ \E k \in FileCounts, n \in LineCounts :
              log_files \in SmallCorpora(LineOrderJob0, k, n)
       \/ log_files \in ExampleCorpora
       \/ log_files \in TwoResumeCorpora
    /\ pc = "read"
    /\ file_i = 1
    /\ log_iters_list = <<>>
    /\ restarted_at = EmptyDict
    /\ log_iters = <<>>
    /\ job_i = 1
    /\ combined = <<>>
    /\ rstr_i = 1
    /\ jobs = EmptyDict
    /\ parsed_logs = EmptyDict
    /\ raised = ""
    /\ summary = EmptyDict
    /\ jobs_order_to_print = <<>>
    /\ boxes = EmptyDict
    /\ OtherProgramsIdle

\* One pass of `for log_file_name in log_file_names`.
ReadFile ==
    /\ pc = "read"
    /\ file_i <= Len(log_files)
    /\ log_iters_list' = Append(log_iters_list, FromRegexIters(log_files[file_i]))
    /\ restarted_at' = DictUpdate(restarted_at, find_suspended_timestamps(log_files[file_i]))
    /\ file_i' = file_i + 1
    /\ UNCHANGED <<log_files, pc, log_iters, job_i, combined, rstr_i, jobs, parsed_logs, raised>>
    /\ UNCHANGED beyond_parse

\* log_iters = np.concat(log_iters_list); np.concat of an empty list raises
\* ValueError.
Concat ==
    /\ pc = "read"
    /\ file_i > Len(log_files)
    /\ IF log_iters_list = <<>>
       THEN /\ pc' = "raised"
            /\ raised' = "ValueError"
            /\ UNCHANGED log_iters
       ELSE /\ pc' = "jobs"
            /\ log_iters' = FlattenSeq(log_iters_list)
            /\ UNCHANGED raised
    /\ UNCHANGED <<log_files, file_i, log_iters_list, restarted_at, job_i, combined, rstr_i,
                   jobs, parsed_logs>>
    /\ UNCHANGED beyond_parse

CurrentJob == UniqueJobs(log_iters)[job_i]

\* The body of `for job in np.unique(log_iters['job'])` up to the call of
\* correct_time_due_suspension.
BuildJob ==
    /\ pc = "jobs"
    /\ job_i <= Len(UniqueJobs(log_iters))
    /\ combined' = Combined(log_iters, CurrentJob)
    /\ rstr_i' = 1
    /\ pc' = "correct"
    /\ UNCHANGED <<log_files, file_i, log_iters_list, restarted_at, log_iters, job_i, jobs,
                   parsed_logs, raised>>
    /\ UNCHANGED beyond_parse

\* One pass of `for rstr in restarted_at` in correct_time_due_suspension.
CorrectStep ==
    /\ pc = "correct"
    /\ rstr_i <= Len(DictGet(restarted_at, CurrentJob))
    /\ LET r == CorrectOne(combined, DictGet(restarted_at, CurrentJob)[rstr_i])
       IN IF r.raised
          THEN /\ pc' = "raised"
               /\ raised' = "AssertionError"
               /\ UNCHANGED <<combined, rstr_i>>
          ELSE /\ combined' = r.job_info
               /\ rstr_i' = rstr_i + 1
               /\ UNCHANGED <<pc, raised>>
    /\ UNCHANGED <<log_files, file_i, log_iters_list, restarted_at, log_iters, job_i, jobs,
                   parsed_logs>>
    /\ UNCHANGED beyond_parse

\* correct_time_due_suspension returns; jobs[int(job)] = combined.
StoreJob ==
    /\ pc = "correct"
    /\ rstr_i > Len(DictGet(restarted_at, CurrentJob))
    /\ jobs' = [k \in DOMAIN jobs \cup {CurrentJob} |->
                   IF k = CurrentJob THEN combined ELSE jobs[k]]
    /\ job_i' = job_i + 1
    /\ pc' = "jobs"
    /\ UNCHANGED <<log_files, file_i, log_iters_list, restarted_at, log_iters, combined,
                   rstr_i, parsed_logs, raised>>
    /\ UNCHANGED beyond_parse

\* return jobs
Return ==
    /\ pc = "jobs"
    /\ job_i > Len(UniqueJobs(log_iters))
    /\ parsed_logs' = jobs
    /\ pc' = "done"
    /\ UNCHANGED <<log_files, file_i, log_iters_list, restarted_at, log_iters, job_i,
                   combined, rstr_i, jobs, raised>>
    /\ UNCHANGED beyond_parse

Next == ReadFile \/ Concat \/ BuildJob \/ CorrectStep \/ StoreJob \/ Return

Spec == Init /\ [][Next]_vars

\* ------------------------------------------------ the pipeline as a function
\* restarted_at after the loop over the files has run on `files`.
RECURSIVE RestartedAtAfter(_)
RestartedAtAfter(files) ==
    IF files = <<>> THEN EmptyDict
    ELSE DictUpdate(RestartedAtAfter(SubSeq(files, 1, Len(files) - 1)),
                    find_suspended_timestamps(files[Len(files)]))

\* correct_time_due_suspension(job_info, rstrs): the loop over all resume times.
RECURSIVE CorrectAll(_, _)
CorrectAll(job_info, rstrs) ==
    IF rstrs = <<>> THEN [raised |-> FALSE, job_info |-> job_info]
    ELSE LET r == CorrectOne(job_info, Head(rstrs))
         IN IF r.raised THEN r ELSE CorrectAll(r.job_info, Tail(rstrs))

\* parse_iteration_log on the files in the given order: the exception that
\* ended it ("" if none) and the dict it returned.
ParseIterationLog(files) ==
    LET log == FlattenSeq([f \in 1..Len(files) |-> FromRegexIters(files[f])])
        rat == RestartedAtAfter(files)
        js == Range(UniqueJobs(log))
        out == [j \in js |-> CorrectAll(Combined(log, j), DictGet(rat, j))]
    IN IF files = <<>> THEN [raised |-> "ValueError", jobs |-> EmptyDict]
       ELSE IF \E j \in js : out[j].raised
            THEN [raised |-> "AssertionError", jobs |-> EmptyDict]
            ELSE [raised |-> "", jobs |-> [j \in js |-> out[j].job_info]]

\* ------------------------------------------------------------ plot_sequence
\* box_sequence of plot_sequence: (start, width, heit, skip) per box.
BoxSequence(job_data) ==
    [i \in 1..Len(job_data) |->
        IF i = 1
        THEN [start |-> 0, width |-> job_data[1].time, heit |-> job_data[1].iter_time,
              skip |-> job_data[1].skipped]
        ELSE [start |-> job_data[i - 1].time, width |-> job_data[i].iter_time,
              heit |-> job_data[i].iter_time, skip |-> job_data[i].skipped]]

\* Every `assert heit == 0` of plot_sequence passes on job_data.
PlotSequenceAssertsHold(job_data) ==
    \A i \in 1..Len(job_data) :
        BoxSequence(job_data)[i].skip => BoxSequence(job_data)[i].heit = 0

\* ------------------------------------------------------- corpus vocabulary
\* The lines of the corpus, pooled over its files.
PooledLines == FlattenSeq(log_files)
IterLinesOf(job) ==
    {PooledLines[i] : i \in {k \in 1..Len(PooledLines) :
        PooledLines[k].kind = "ITERATION" /\ PooledLines[k].job = job}}
SuspLinesOf(job) ==
    {PooledLines[i] : i \in {k \in 1..Len(PooledLines) :
        PooledLines[k].kind = "SUSPENDED" /\ PooledLines[k].job = job}}
JobsLogged == {j \in Jobs : IterLinesOf(j) # {}}
Done == pc = "done"

\* ------------------------------------------------------------------ claims

\* C1 (as claimed): in every returned timeline a skipped position has duration
\* 0, so the assertion of plot_sequence on skipped boxes passes.
C1_SkippedHasZeroDuration ==
    Done => \A j \in DOMAIN parsed_logs :
                /\ \A i \in 1..Len(parsed_logs[j]) :
                       parsed_logs[j][i].skipped => parsed_logs[j][i].iter_time = 0
                /\ PlotSequenceAssertsHold(parsed_logs[j])

\* C2 (as claimed): the first position of every returned timeline is not
\* skipped.
C2_FirstNeverSkipped ==
    Done => \A j \in DOMAIN parsed_logs : ~parsed_logs[j][1].skipped

\* C2 (amended): the first position of a returned timeline is skipped exactly
\* when a record of the job's lowest iteration number carries the skip marker;
\* the gap heuristic never flags it.
C2_FirstSkippedIffMarked ==
    Done => \A j \in DOMAIN parsed_logs :
                parsed_logs[j][1].skipped <=>
                    \E l \in IterLinesOf(j) :
                        /\ l.skipped
                        /\ \A m \in IterLinesOf(j) : l.iter <= m.iter

\* C2 witness: a returned timeline that starts at an unmarked iteration number
\* other than 0 (the gap computation would flag it), first position not skipped.
C2_Witness ==
    /\ Done
    /\ \E j \in DOMAIN parsed_logs :
           /\ parsed_logs[j][1].iter > 0
           /\ ~parsed_logs[j][1].skipped
           /\ Len(parsed_logs[j]) >= 2

\* The resume times of a job over every file of the corpus, ascending.
AllResumeTimes(job) == SortedSeq({l.time : l \in SuspLinesOf(job)})

\* C3 (as claimed): the resume times handed to correct_time_due_suspension are
\* all resume times of the job over all files, ascending and duplicate-free.
C3_ResumeTimesOfAllFiles ==
    pc = "correct" => DictGet(restarted_at, CurrentJob) = AllResumeTimes(CurrentJob)

\* The files of the corpus read in the order p.
Reordered(p) == [i \in 1..Len(log_files) |-> log_files[p[i]]]

\* C4 (as claimed): reading the files in any other order returns the same
\* timelines.
C4_FileOrderIrrelevant ==
    Done => \A p \in Permutations(1..Len(log_files)) :
                ParseIterationLog(Reordered(p)) = [raised |-> "", jobs |-> parsed_logs]

\* The positions of job_info whose cumulative time is strictly after resume
\* time r (r in logged units).
StrictlyAfter(job_info, r) ==
    {i \in 1..Len(job_info) : job_info[i].time > r * TimeScale}

\* C5: one pass of the correction loop for resume time r, with i the first
\* position whose cumulative time is strictly greater than r: if i is not the
\* first position, duration[i] decreases by exactly r - cumulative_time[i-1].
C5_SuspensionCorrection ==
    [][(pc = "correct" /\ rstr_i' = rstr_i + 1) =>
          LET r == DictGet(restarted_at, CurrentJob)[rstr_i]
              after == StrictlyAfter(combined, r)
          IN (after # {} /\ Min(after) > 1) =>
                combined'[Min(after)].iter_time =
                    combined[Min(after)].iter_time
                        - (r * TimeScale - combined[Min(after) - 1].time)]_vars

\* C5 witness: cumulative times [0, 10, 30], resume time 20 processed, and the
\* duration of the third position corrected from 20 to 10.
C5_Witness ==
    /\ log_files = SuspensionExample
    /\ pc = "correct"
    /\ rstr_i = 2
    /\ [i \in 1..3 |-> combined[i].time] = <<0, 10 * TimeScale, 30 * TimeScale>>
    /\ combined[3].iter_time = 10 * TimeScale

\* The cumulative time of the first position of the job's timeline.
FirstCumulativeTime(job) == Combined(log_iters, job)[1].time

\* The job has a suspension record, in some file, that resumes before the
\* cumulative time of the job's first position.
ResumesBeforeStart(job) ==
    \E l \in SuspLinesOf(job) : l.time * TimeScale < FirstCumulativeTime(job)

\* C6 (as claimed): a job with a resume time earlier than its first cumulative
\* time gets no timeline; parse_iteration_log does not return normally.
C6_EarlyResumeRaises ==
    Done => \A j \in DOMAIN parsed_logs : ~ResumesBeforeStart(j)

\* C7 (as claimed): when the assertion fails for one job, the timeline of
\* every other job that does not violate the precondition is still returned.
C7_OtherJobsStillReturned ==
    (pc = "raised" /\ raised = "AssertionError") =>
        \A j \in JobsLogged \ {CurrentJob} :
            ~ResumesBeforeStart(j) => j \in DOMAIN parsed_logs

\* cumulative_time of the timeline is non-decreasing.
NonDecreasingTime(job_data) ==
    \A i \in 2..Len(job_data) : job_data[i - 1].time <= job_data[i].time

\* C8 (as claimed): cumulative_time of every returned timeline is
\* non-decreasing.
C8_CumulativeTimeNonDecreasing ==
    Done => \A j \in DOMAIN parsed_logs : NonDecreasingTime(parsed_logs[j])

\* Every record of a smaller iteration number of the job is stamped no later
\* than every record of a larger one.
TimestampsFollowIterations(job) ==
    \A a, b \in IterLinesOf(job) : a.iter < b.iter => a.time <= b.time

\* C8 (amended): cumulative_time is non-decreasing for every job whose records
\* are stamped in the order of their iteration numbers.
C8_NonDecreasingWhenStampedInOrder ==
    Done => \A j \in DOMAIN parsed_logs :
                TimestampsFollowIterations(j) => NonDecreasingTime(parsed_logs[j])

\* C8 witness: a returned timeline of two positions whose first cumulative
\* time is the mean of two different timestamps, records stamped in order.
C8_Witness ==
    /\ Done
    /\ \E j \in DOMAIN parsed_logs :
           /\ TimestampsFollowIterations(j)
           /\ Len(parsed_logs[j]) >= 2
           /\ \E a, b \in IterLinesOf(j) :
                  /\ a.iter = parsed_logs[j][1].iter
                  /\ b.iter = a.iter
                  /\ a.time < b.time
                  /\ parsed_logs[j][1].time * 2 = (a.time + b.time) * TimeScale
           /\ parsed_logs[j][1].time < parsed_logs[j][2].time

\* C9: the iteration column of a returned timeline is strictly increasing and
\* holds exactly the iteration numbers logged for the job; every job with an
\* iteration record has a timeline.
C9_IterationsAreLoggedSet ==
    Done => /\ DOMAIN parsed_logs = JobsLogged
            /\ \A j \in DOMAIN parsed_logs :
                   /\ \A i \in 2..Len(parsed_logs[j]) :
                          parsed_logs[j][i - 1].iter < parsed_logs[j][i].iter
                   /\ {parsed_logs[j][i].iter : i \in 1..Len(parsed_logs[j])}
                          = {l.iter : l \in IterLinesOf(j)}

\* C9 witness: two jobs returned with different iteration sets, one of them
\* with a gap and an iteration number logged twice.
C9_Witness ==
    /\ Done
    /\ DOMAIN parsed_logs = {0, 1}
    /\ [i \in 1..Len(parsed_logs[0]) |-> parsed_logs[0][i].iter] = <<0, 2>>
    /\ [i \in 1..Len(parsed_logs[1]) |-> parsed_logs[1][i].iter] = <<1>>

\* C10: for a job without skip markers, a position after the first is skipped
\* exactly when its iteration number is not the predecessor's plus one.
C10_GapHeuristic ==
    Done => \A j \in DOMAIN parsed_logs :
                (\A l \in IterLinesOf(j) : ~l.skipped) =>
                    \A i \in 2..Len(parsed_logs[j]) :
                        parsed_logs[j][i].skipped <=>
                            parsed_logs[j][i].iter - parsed_logs[j][i - 1].iter # 1

\* C10 witness: iteration numbers [0,1,2,5,6] without markers; exactly the
\* position of iteration 5 is skipped.
C10_Witness ==
    /\ Done
    /\ log_files = GapExample
    /\ [i \in 1..5 |-> parsed_logs[0][i].iter] = <<0, 1, 2, 5, 6>>
    /\ [i \in 1..5 |-> parsed_logs[0][i].skipped] = <<FALSE, FALSE, FALSE, TRUE, FALSE>>

\* The positions (in the pooled corpus) of the records of group (job, it).
GroupOf(job, it) ==
    {k \in 1..Len(PooledLines) :
        /\ PooledLines[k].kind = "ITERATION"
        /\ PooledLines[k].job = job
        /\ PooledLines[k].iter = it}
\* The iteration numbers of the timeline step by one: the gap heuristic is silent.
Contiguous(tl) == \A i \in 2..Len(tl) : tl[i].iter = tl[i - 1].iter + 1

\* C11: in every returned timeline, a position whose (job, iteration) group
\* holds at least one record with the skip marker has skipped = TRUE, also when
\* other records of the group lack the marker and the job's iteration numbers
\* are contiguous.
C11_MarkerForcesSkipped ==
    Done => \A j \in DOMAIN parsed_logs : \A i \in 1..Len(parsed_logs[j]) :
                (\E k \in GroupOf(j, parsed_logs[j][i].iter) : PooledLines[k].skipped)
                    => parsed_logs[j][i].skipped
\* A returned timeline with contiguous iteration numbers and a position past
\* the first whose group mixes a marked and an unmarked record.
C11_Witness ==
    /\ Done
    /\ \E j \in DOMAIN parsed_logs : \E i \in 2..Len(parsed_logs[j]) :
          /\ Contiguous(parsed_logs[j])
          /\ \E k \in GroupOf(j, parsed_logs[j][i].iter) : PooledLines[k].skipped
          /\ \E k \in GroupOf(j, parsed_logs[j][i].iter) : ~PooledLines[k].skipped
          /\ parsed_logs[j][i].skipped

RECURSIVE SumTimes(_)
\* The sum of the logged timestamps of the pooled lines at the positions S.
SumTimes(S) ==
    IF S = {} THEN 0
    ELSE LET k == CHOOSE x \in S : TRUE IN PooledLines[k].time + SumTimes(S \ {k})

\* C12: at every position of every returned timeline, cumulative_time is the
\* arithmetic mean of the timestamps of all records of the position's (job,
\* iteration) group, pooled over the files, marked and unmarked alike; on the
\* example corpus, timestamps 100 and 104 of (job 1, iteration 4) give 102.
C12_TimeIsGroupMean ==
    /\ Done => \A j \in DOMAIN parsed_logs : \A i \in 1..Len(parsed_logs[j]) :
                  LET g == GroupOf(j, parsed_logs[j][i].iter)
                  IN /\ g # {}
                     /\ parsed_logs[j][i].time * Cardinality(g) = TimeScale * SumTimes(g)
    /\ (Done /\ log_files = MeanExample) =>
           /\ parsed_logs[1][2].iter = 4
           /\ parsed_logs[1][2].time = 102 * TimeScale
\* A returned timeline of two positions or more, one of them with a group that
\* has a marked record in one file and an unmarked record with another
\* timestamp in another file (the example corpus is one such case).
C12_Witness ==
    /\ Done
    /\ \E j \in DOMAIN parsed_logs : \E i \in 1..Len(parsed_logs[j]) :
          /\ Len(parsed_logs[j]) >= 2
          /\ \E f1, f2 \in 1..Len(log_files) :
               /\ f1 # f2
               /\ \E a \in Range(log_files[f1]), b \in Range(log_files[f2]) :
                     /\ a.kind = "ITERATION" /\ b.kind = "ITERATION"
                     /\ a.job = j /\ b.job = j
                     /\ a.iter = parsed_logs[j][i].iter /\ b.iter = a.iter
                     /\ a.skipped /\ ~b.skipped /\ a.time # b.time

\* The columns of a timeline.
IterationCol(tl) == [i \in 1..Len(tl) |-> tl[i].iter]
TimeCol(tl) == [i \in 1..Len(tl) |-> tl[i].time]
DurationCol(tl) == [i \in 1..Len(tl) |-> tl[i].iter_time]
SkippedCol(tl) == [i \in 1..Len(tl) |-> tl[i].skipped]

\* C13 (as claimed): the end-to-end example, each of its four lines starting
\* at the beginning of its line, is processed without error and yields for
\* job 1 iteration = [0,1,2], cumulative_time = [0,50,80], duration = [0,30,30].
C13_EndToEnd ==
    (log_files = EndToEndExample) =>
        /\ raised = ""
        /\ Done =>
             /\ 1 \in DOMAIN parsed_logs
             /\ IterationCol(parsed_logs[1]) = <<0, 1, 2>>
             /\ TimeCol(parsed_logs[1]) = <<0, 50 * TimeScale, 80 * TimeScale>>
             /\ DurationCol(parsed_logs[1]) = <<0, 30 * TimeScale, 30 * TimeScale>>

\* A line neither pattern matches.
Unrecognized(l) == l.kind \notin {"ITERATION", "SUSPENDED"}
\* The corpus with the unrecognized lines removed, file by file.
WithoutUnrecognized(files) ==
    [f \in 1..Len(files) |-> SelectSeq(files[f], LAMBDA l : ~Unrecognized(l))]

Parse ==
    /\ pc = "read"
    /\ file_i = 1
    /\ LET out == ParseIterationLog(log_files)
       IN /\ raised' = out.raised
          /\ parsed_logs' = out.jobs
          /\ pc' = IF out.raised = "" THEN "done" ELSE "raised"
    /\ UNCHANGED <<log_files, file_i, log_iters_list, restarted_at, log_iters, job_i,
                   combined, rstr_i, jobs>>
    /\ UNCHANGED beyond_parse

\* max(job['time'].max() for job in parsed_logs.values()), parsed non-empty
FinalTimestamp(parsed) ==
    Max({Max({parsed[j][i].time : i \in 1..Len(parsed[j])}) : j \in DOMAIN parsed})

\* final_timestamp = float(max(...)); print("Simulation end =", final_timestamp)
\* max() of an empty iterable raises ValueError.  pc = "final": the line printed.
ComputeFinalTimestamp ==
    /\ pc = "done"
    /\ IF DOMAIN parsed_logs = {}
       THEN raised' = "ValueError" /\ pc' = "raised"
       ELSE raised' = raised /\ pc' = "final"
    /\ UNCHANGED <<log_files, file_i, log_iters_list, restarted_at, log_iters, job_i,
                   combined, rstr_i, jobs, parsed_logs>>
    /\ UNCHANGED beyond_parse

\* `if args.saveas:` -- the option is declared as '--save-as', which argparse
\* stores as args.save_as; reading args.saveas raises AttributeError.
BranchOnSaveAs ==
    /\ pc = "final"
    /\ raised' = "AttributeError"
    /\ pc' = "raised"
    /\ UNCHANGED <<log_files, file_i, log_iters_list, restarted_at, log_iters, job_i,
                   combined, rstr_i, jobs, parsed_logs>>
    /\ UNCHANGED beyond_parse

MainNext == Parse \/ ComputeFinalTimestamp \/ BranchOnSaveAs

MainSpec == Init /\ [][MainNext]_vars

\* -------------------------------------------- consumers of the timelines
\* A numpy mean, kept exact as the sum and the number of the entries; n = 0 is
\* the nan np.mean returns for an empty array.
MeanOfSeq(ts) == [sum |-> SumSeq(ts), n |-> Len(ts)]
\* Two means are the same number (nan equals nothing).
SameMean(a, b) == a.n # 0 /\ b.n # 0 /\ a.sum * b.n = b.sum * a.n
\* a < b as floats (False when either is nan).
MeanLess(a, b) == a.n # 0 /\ b.n # 0 /\ a.sum * b.n < b.sum * a.n

\* key_jobs(job): iter_times[iter_times != 0].mean()
key_jobs(parsed, job) ==
    LET iter_times == DurationCol(parsed[job])
        non_zero_iter_times == SelectSeq(iter_times, LAMBDA h : h # 0)
    IN MeanOfSeq(non_zero_iter_times)

\* sorted(parsed_logs.keys(), key=key_jobs, reverse=True): descending keys,
\* jobs whose keys do not compare as different stay in dict order (ascending
\* job number).  Determined for up to two jobs, nan keys included.
JobsOrderToPrint(parsed) ==
    LET n == Cardinality(DOMAIN parsed)
    IN CHOOSE s \in [1..n -> DOMAIN parsed] :
          /\ \A a, b \in 1..n : s[a] = s[b] => a = b
          /\ \A a, b \in 1..n : a < b =>
                \/ MeanLess(key_jobs(parsed, s[b]), key_jobs(parsed, s[a]))
                \/ /\ ~MeanLess(key_jobs(parsed, s[a]), key_jobs(parsed, s[b]))
                   /\ s[a] < s[b]

\* job_data['iter_time'][~job_data['skipped']]
NonSkippedTimes(job_data) ==
    LET idx == SortedSeq({i \in 1..Len(job_data) : ~job_data[i].skipped})
    IN [k \in 1..Len(idx) |-> job_data[idx[k]].iter_time]

\* One row of the summary file: Total_Iterations, Skipped_Iterations,
\* Mean_Iteration_Time_ns (0.0 when every position is skipped) and
\* Total_Virtual_Time_ns.
SummaryRow(job_data) ==
    LET non_skipped_times == NonSkippedTimes(job_data)
    IN [total_iterations |-> Len(job_data),
        skipped_iterations |-> Cardinality({i \in 1..Len(job_data) : job_data[i].skipped}),
        mean_iter_time |-> IF Len(non_skipped_times) > 0
                           THEN MeanOfSeq(non_skipped_times)
                           ELSE [sum |-> 0, n |-> 1],
        total_virtual_time |-> SumSeq(non_skipped_times)]

\* Variant of PlotSequence: the loop over the boxes clears the height of a
\* skipped box (height[i] = 0, a write through the view of the array) where
\* the code asserts that it is 0.
PlotSequenceZeroing(job_data) ==
    [raised |-> FALSE,
     rectangles |-> SelectSeq(BoxSequence(job_data), LAMBDA b : ~b.skip),
     job_data |-> [i \in 1..Len(job_data) |->
                      IF job_data[i].skipped
                      THEN [job_data[i] EXCEPT !.iter_time = 0]
                      ELSE job_data[i]]]

\* plot_sequence(ax, job_data): whether `assert heit == 0` failed, the
\* rectangles added to the axes, and the array job_data as the call leaves it
\* (seq, names, height and skipped are views of it, and none is written).
PlotSequence(job_data) ==
    [raised |-> ~PlotSequenceAssertsHold(job_data),
     rectangles |-> IF PlotSequenceAssertsHold(job_data)
                    THEN SelectSeq(BoxSequence(job_data), LAMBDA b : ~b.skip)
                    ELSE <<>>,
     job_data |-> job_data]

\* export_iteration_data_to_csv(parsed_logs, saveas, legends)
ExportCsv ==
    /\ pc = "done"
    /\ summary' = [j \in DOMAIN parsed_logs |-> SummaryRow(parsed_logs[j])]
    /\ UNCHANGED <<log_files, pc, file_i, log_iters_list, restarted_at, log_iters, job_i,
                   combined, rstr_i, jobs, parsed_logs, raised, jobs_order_to_print, boxes>>
    /\ UNCHANGED other_programs

\* jobs_order_to_print = sorted(parsed_logs.keys(), key=key_jobs, reverse=True)
SortJobs ==
    /\ pc = "done"
    /\ jobs_order_to_print = <<>>
    /\ DOMAIN parsed_logs # {}
    /\ jobs_order_to_print' = JobsOrderToPrint(parsed_logs)
    /\ UNCHANGED <<log_files, pc, file_i, log_iters_list, restarted_at, log_iters, job_i,
                   combined, rstr_i, jobs, parsed_logs, raised, summary, boxes>>
    /\ UNCHANGED other_programs

\* One pass of `for job in jobs_order_to_print: plot_sequence(ax, parsed_logs[job], ...)`
PlotJob ==
    /\ pc = "done"
    /\ Cardinality(DOMAIN boxes) < Len(jobs_order_to_print)
    /\ LET job == jobs_order_to_print[Cardinality(DOMAIN boxes) + 1]
           r == PlotSequence(parsed_logs[job])
       IN /\ parsed_logs' = [parsed_logs EXCEPT ![job] = r.job_data]
          /\ IF r.raised
             THEN /\ raised' = "AssertionError"
                  /\ pc' = "raised"
                  /\ UNCHANGED boxes
             ELSE /\ boxes' = [j \in DOMAIN boxes \cup {job} |->
                                  IF j = job THEN r.rectangles ELSE boxes[j]]
                  /\ UNCHANGED <<pc, raised>>
    /\ UNCHANGED <<log_files, file_i, log_iters_list, restarted_at, log_iters, job_i,
                   combined, rstr_i, jobs, summary, jobs_order_to_print>>
    /\ UNCHANGED other_programs

\* The consumers are called on the timelines of one-file corpora: up to two
\* lines of any job, three lines of job 0, and the one-file examples.
ConsumerInit ==
    /\ \/ \E n \in 0..2 : log_files \in SmallCorpora(LineOrder, 1, n)
       \/ log_files \in SmallCorpora(LineOrderJob0, 1, 3)
       \/ log_files \in {c \in ExampleCorpora : Len(c) = 1}
       \/ log_files \in TwoResumeCorpora
    /\ pc = "read"
    /\ file_i = 1
    /\ log_iters_list = <<>>
    /\ restarted_at = EmptyDict
    /\ log_iters = <<>>
    /\ job_i = 1
    /\ combined = <<>>
    /\ rstr_i = 1
    /\ jobs = EmptyDict
    /\ parsed_logs = EmptyDict
    /\ raised = ""
    /\ summary = EmptyDict
    /\ jobs_order_to_print = <<>>
    /\ boxes = EmptyDict
    /\ OtherProgramsIdle

ConsumerNext == Parse \/ ExportCsv \/ SortJobs \/ PlotJob

ConsumerSpec == ConsumerInit /\ [][ConsumerNext]_vars

\* No line of the corpus is an iteration record.
NoIterationRecords == \A k \in 1..Len(PooledLines) : PooledLines[k].kind # "ITERATION"

\* C15 (as claimed): on a corpus without any iteration record (no file at all,
\* empty files, or suspension records only) neither the reconstruction nor the
\* computation of the final simulation timestamp raises an error.
C15_NoRecordsNoError == NoIterationRecords => raised = ""

\* C16 (as claimed): in every returned timeline the first duration equals the
\* first cumulative time.
C16_FirstDurationIsFirstTime ==
    Done => \A j \in DOMAIN parsed_logs :
                parsed_logs[j][1].iter_time = parsed_logs[j][1].time

\* C16 (amended): in every returned timeline the first duration equals the
\* first cumulative time, unless a record of the job's lowest iteration carries
\* the skip marker; then the first duration is 0.
C16_FirstDurationUnlessMarked ==
    Done => \A j \in DOMAIN parsed_logs :
                parsed_logs[j][1].iter_time =
                    IF \E k \in GroupOf(j, parsed_logs[j][1].iter) : PooledLines[k].skipped
                    THEN 0
                    ELSE parsed_logs[j][1].time
\* A returned timeline of a job with a resume time, two positions or more, and
\* an unmarked first position whose cumulative time is not 0.
C16_Witness ==
    /\ Done
    /\ \E j \in DOMAIN parsed_logs :
          /\ Len(parsed_logs[j]) >= 2
          /\ DictGet(restarted_at, j) # <<>>
          /\ ~parsed_logs[j][1].skipped
          /\ parsed_logs[j][1].time > 0
          /\ parsed_logs[j][1].iter_time = parsed_logs[j][1].time

\* The first position of timeline tl strictly after resume time r, 0 if none.
TargetOf(tl, r) == IF StrictlyAfter(tl, r) = {} THEN 0 ELSE Min(StrictlyAfter(tl, r))
\* The positions of tl that are the first strictly after some resume time the
\* corpus records for the job, in any file.
ResumeTargets(job, tl) == {TargetOf(tl, l.time) : l \in SuspLinesOf(job)}

\* C17: in every returned timeline, a position past the first that is not
\* flagged skipped and is not the first position strictly after any resume
\* time of the job has duration cumulative_time[i] - cumulative_time[i-1],
\* whether or not position i-1 is skipped.
C17_PlainDurationIsDifference ==
    Done => \A j \in DOMAIN parsed_logs : \A i \in 2..Len(parsed_logs[j]) :
                (~parsed_logs[j][i].skipped /\ i \notin ResumeTargets(j, parsed_logs[j]))
                    => parsed_logs[j][i].iter_time =
                           parsed_logs[j][i].time - parsed_logs[j][i - 1].time
\* A returned timeline of a suspended job with such a position i, of non-zero
\* duration, right after a skipped position.
C17_Witness ==
    /\ Done
    /\ \E j \in DOMAIN parsed_logs : \E i \in 2..Len(parsed_logs[j]) :
          /\ SuspLinesOf(j) # {}
          /\ parsed_logs[j][i - 1].skipped
          /\ ~parsed_logs[j][i].skipped
          /\ i \notin ResumeTargets(j, parsed_logs[j])
          /\ parsed_logs[j][i].iter_time # 0

\* The loop of correct_time_due_suspension has a resume time left to process.
Correcting == pc = "correct" /\ rstr_i <= Len(DictGet(restarted_at, CurrentJob))
\* The resume time the next pass of the loop processes.
CurrentResume == DictGet(restarted_at, CurrentJob)[rstr_i]

\* C18: a pass of the correction loop for one resume time leaves the iteration,
\* cumulative_time and skipped columns as they are, and leaves every duration
\* entry as it is except, at most, the entry of the first position strictly
\* after the resume time.
C18_CorrectionFrame ==
    [][Correcting =>
          /\ IterationCol(combined') = IterationCol(combined)
          /\ TimeCol(combined') = TimeCol(combined)
          /\ SkippedCol(combined') = SkippedCol(combined)
          /\ \A i \in 1..Len(combined) :
                i # TargetOf(combined, CurrentResume)
                    => combined'[i].iter_time = combined[i].iter_time]_vars
\* One pass done on a timeline of two positions or more, and exactly one
\* duration entry differs from the uncorrected timeline.
C18_Witness ==
    /\ pc = "correct"
    /\ rstr_i = 2
    /\ Len(combined) >= 2
    /\ Cardinality({i \in 1..Len(combined) :
           combined[i] # Combined(log_iters, CurrentJob)[i]}) = 1

\* C19: a pass of the correction loop for a resume time that is greater than or
\* equal to the cumulative time of every position changes nothing in the
\* timeline and raises no error.
C19_LateResumeChangesNothing ==
    [][(Correcting /\ \A i \in 1..Len(combined) :
                          combined[i].time <= CurrentResume * TimeScale)
          => /\ combined' = combined
             /\ raised' = ""
             /\ pc' = "correct"]_vars
\* The pass for a resume time equal to the last cumulative time of a timeline
\* of two positions or more is done, the timeline is the uncorrected one and
\* the loop goes on.
C19_Witness ==
    /\ pc = "correct"
    /\ rstr_i = 2
    /\ Len(combined) >= 2
    /\ DictGet(restarted_at, CurrentJob)[1] * TimeScale = combined[Len(combined)].time
    /\ \A i \in 1..Len(combined) : combined[i].time <= combined[Len(combined)].time
    /\ combined[Len(combined)].iter_time # 0
    /\ combined = Combined(log_iters, CurrentJob)

\* The loop of correct_time_due_suspension has processed every resume time.
CorrectionDone == pc = "correct" /\ rstr_i > Len(DictGet(restarted_at, CurrentJob))
\* The sum of r - cumulative_time[i-1] over the resume times r of rs whose
\* first strictly-later position in tl is i.
OffsetSum(tl, rs, i) ==
    SumSeq([k \in 1..Len(rs) |->
               IF i > 1 /\ TargetOf(tl, rs[k]) = i
               THEN rs[k] * TimeScale - tl[i - 1].time
               ELSE 0])
\* The orders in which n resume times can be processed.
Orders(n) == {p \in [1..n -> 1..n] : \A a, b \in 1..n : p[a] = p[b] => a = b}

\* C20: when the correction loop has processed all resume times it was given,
\* every duration is the uncorrected duration minus the sum of
\* r - cumulative_time[i-1] over the resume times r whose first strictly-later
\* position is i, and processing the resume times in any other order gives the
\* same timeline.
C20_CorrectionsCumulative ==
    CorrectionDone =>
        LET rs == DictGet(restarted_at, CurrentJob)
            plain == Combined(log_iters, CurrentJob)
        IN /\ \A i \in 1..Len(plain) :
                 combined[i].iter_time = plain[i].iter_time - OffsetSum(plain, rs, i)
           /\ \A p \in Orders(Len(rs)) :
                 CorrectAll(plain, [k \in 1..Len(rs) |-> rs[p[k]]])
                     = [raised |-> FALSE, job_info |-> combined]
\* The loop is finished for a job with two resume times that fall, both after
\* the cumulative time of position i-1, before the same position i.
C20_Witness ==
    /\ CorrectionDone
    /\ LET rs == DictGet(restarted_at, CurrentJob)
           plain == Combined(log_iters, CurrentJob)
       IN \E a, b \in 1..Len(rs) : \E i \in 2..Len(plain) :
             /\ rs[a] < rs[b]
             /\ TargetOf(plain, rs[a]) = i
             /\ TargetOf(plain, rs[b]) = i
             /\ rs[a] * TimeScale > plain[i - 1].time

\* The corpus in which every suspension record (job, resume time) is kept where
\* it is reported first and its later repetitions, in the same or in a later
\* file, are removed: each distinct resume time is present exactly once.
WithoutRepeatedResumes(files) ==
    [f \in 1..Len(files) |->
        LET keep == {i \in 1..Len(files[f]) :
                        ~(/\ files[f][i].kind = "SUSPENDED"
                          /\ \/ \E k \in 1..(i - 1) : files[f][k] = files[f][i]
                             \/ \E g \in 1..(f - 1) : \E k \in 1..Len(files[g]) :
                                    files[g][k] = files[f][i])}
            idx == SortedSeq(keep)
        IN [j \in 1..Len(idx) |-> files[f][idx[j]]]]

\* C21 (as claimed): a resume time reported more than once counts once: when
\* parse_iteration_log has ended on a corpus with repeated suspension records,
\* its outcome is the outcome on the corpus with each distinct resume time of
\* each job present exactly once.
C21_RepeatedResumeCountsOnce ==
    (pc \in {"done", "raised"} /\ WithoutRepeatedResumes(log_files) # log_files) =>
        LET once == ParseIterationLog(WithoutRepeatedResumes(log_files))
        IN /\ raised = once.raised
           /\ parsed_logs = once.jobs

\* The corpus with the iteration and suspension records of every job but `job`
\* removed, file by file.
OnlyJob(files, job) ==
    [f \in 1..Len(files) |->
        SelectSeq(files[f], LAMBDA l : Unrecognized(l) \/ l.job = job)]

\* The timeline returned for each job is the one returned from the corpus
\* reduced to that job's records; two corpora with the same records of job A
\* therefore return the same timeline for A.
SameAsAlone ==
    Done => \A A \in DOMAIN parsed_logs :
                OnlyJob(log_files, A) # log_files =>
                    LET alone == ParseIterationLog(OnlyJob(log_files, A))
                    IN /\ alone.raised = ""
                       /\ alone.jobs = [j \in {A} |-> parsed_logs[A]]
\* A step of the loop over the jobs leaves every stored timeline and every
\* resume-time list as it is.
StoredJobsKept ==
    (pc \in {"jobs", "correct"}) =>
        /\ restarted_at' = restarted_at
        /\ \A A \in DOMAIN jobs : A \in DOMAIN jobs' /\ jobs'[A] = jobs[A]

\* C22: job independence: the timeline of job A is the same for every corpus
\* with the same records of job A (whenever reconstruction completes), and the
\* processing of another job neither rewrites a stored timeline nor a
\* resume-time list.
C22_JobIndependence == []SameAsAlone /\ [][StoredJobsKept]_vars
\* Two suspended jobs returned; the timeline of job A, of two positions, was
\* corrected, and job B has a record of one of A's iteration numbers with
\* another timestamp.
C22_Witness ==
    /\ Done
    /\ \E A, B \in DOMAIN parsed_logs :
          /\ A # B
          /\ Len(parsed_logs[A]) >= 2
          /\ DictGet(restarted_at, A) # <<>>
          /\ DictGet(restarted_at, B) # <<>>
          /\ parsed_logs[A] # Combined(log_iters, A)
          /\ \E i \in 1..Len(parsed_logs[A]), k \in 1..Len(parsed_logs[B]) :
                /\ parsed_logs[A][i].iter = parsed_logs[B][k].iter
                /\ parsed_logs[A][i].time # parsed_logs[B][k].time

\* C23 (as claimed): once the summary is written and the jobs are ordered, the
\* key that orders a job (key_jobs) is the Mean_Iteration_Time_ns of the job's
\* summary row: the mean of the durations at its non-skipped positions,
\* durations of 0 included.
C23_KeyIsCsvMean ==
    (pc = "done" /\ summary # EmptyDict /\ jobs_order_to_print # <<>>) =>
        \A j \in DOMAIN parsed_logs :
            SameMean(key_jobs(parsed_logs, j), summary[j].mean_iter_time)

\* C24: a call of a consumer (export_iteration_data_to_csv, plot_sequence, the
\* ordering of the jobs) on the returned timelines leaves the iter, time,
\* iter_time and skipped columns of every job as they were at the return.
C24_ConsumersDoNotMutate ==
    [][(pc = "done") =>
          /\ DOMAIN parsed_logs' = DOMAIN parsed_logs
          /\ \A j \in DOMAIN parsed_logs :
                /\ IterationCol(parsed_logs'[j]) = IterationCol(parsed_logs[j])
                /\ TimeCol(parsed_logs'[j]) = TimeCol(parsed_logs[j])
                /\ DurationCol(parsed_logs'[j]) = DurationCol(parsed_logs[j])
                /\ SkippedCol(parsed_logs'[j]) = SkippedCol(parsed_logs[j])]_vars
\* The summary is written and both of two jobs are plotted, one of them with a
\* skipped position; the timelines are the ones parse_iteration_log returned.
C24_Witness ==
    /\ pc = "done"
    /\ summary # EmptyDict
    /\ Cardinality(DOMAIN parsed_logs) = 2
    /\ DOMAIN boxes = DOMAIN parsed_logs
    /\ \E j \in DOMAIN parsed_logs : \E i \in 1..Len(parsed_logs[j]) : parsed_logs[j][i].skipped
    /\ parsed_logs = ParseIterationLog(log_files).jobs

\* C25 (as claimed): in every returned timeline whose cumulative times are
\* non-decreasing, every duration is non-negative, whatever the number and the
\* placement of the resume times.
C25_DurationsNonNegative ==
    Done => \A j \in DOMAIN parsed_logs :
                (\A i \in 2..Len(parsed_logs[j]) :
                     parsed_logs[j][i - 1].time <= parsed_logs[j][i].time)
                    => \A i \in 1..Len(parsed_logs[j]) : parsed_logs[j][i].iter_time >= 0

\* The resume times given to the loop whose first strictly-later position in
\* tl is i.
ResumesBefore(tl, rs, i) == {k \in 1..Len(rs) : TargetOf(tl, rs[k]) = i}
\* A pass of the correction loop never increases a duration: the offset it
\* subtracts is not negative.
OffsetNotNegative ==
    Correcting => \A i \in 1..Len(combined) : combined'[i].iter_time <= combined[i].iter_time
\* When the loop is finished, a non-skipped position past the first that is
\* the target of exactly one resume time r has duration cumulative_time - r,
\* which is positive.
SingleTargetDuration ==
    CorrectionDone =>
        LET rs == DictGet(restarted_at, CurrentJob)
        IN \A i \in 2..Len(combined) :
              (~combined[i].skipped /\ Cardinality(ResumesBefore(combined, rs, i)) = 1) =>
                  LET r == rs[CHOOSE k \in ResumesBefore(combined, rs, i) : TRUE]
                  IN /\ combined[i].iter_time = combined[i].time - r * TimeScale
                     /\ combined[i].iter_time > 0

\* C26: the offset correct_time_due_suspension subtracts is never negative,
\* and a non-skipped position i > 0 that is the target of exactly one of the
\* resume times has the corrected duration cumulative_time[i] - r > 0, whether
\* or not the cumulative times are monotone.
C26_OffsetAndSingleTarget == []SingleTargetDuration /\ [][OffsetNotNegative]_vars
\* The loop is finished on a timeline whose cumulative times are not
\* monotone, with a non-skipped position that is the target of exactly one
\* resume time, later than the cumulative time of the position before.
C26_Witness ==
    /\ CorrectionDone
    /\ \E a \in 2..Len(combined) : combined[a].time < combined[a - 1].time
    /\ LET rs == DictGet(restarted_at, CurrentJob)
       IN \E i \in 2..Len(combined) :
             /\ ~combined[i].skipped
             /\ Cardinality(ResumesBefore(combined, rs, i)) = 1
             /\ \E k \in ResumesBefore(combined, rs, i) :
                   rs[k] * TimeScale > combined[i - 1].time

\* ------------------------------------------- workloads-allocation.conf
\* print-iterations.py is not running.
ParseIdle ==
    /\ log_files = <<>>
    /\ pc = "read"
    /\ file_i = 1
    /\ log_iters_list = <<>>
    /\ restarted_at = EmptyDict
    /\ log_iters = <<>>
    /\ job_i = 1
    /\ combined = <<>>
    /\ rstr_i = 1
    /\ jobs = EmptyDict
    /\ parsed_logs = EmptyDict
    /\ raised = ""
    /\ summary = EmptyDict
    /\ jobs_order_to_print = <<>>
    /\ boxes = EmptyDict

\* The network size: network_config.max_nodes, 72 in the dfly-72 scripts.
MaxNodes == 4
\* The four applications of generate_non_overlapping_allocations.
AppCount == 4
\* The lengths of the job lists given to _write_workloads_allocation.
AllocJobCounts == 0..3

\* The sequences of `total` distinct node ids: random.sample(range(max_nodes),
\* total), and for total = max_nodes the outcomes of random.shuffle.
Samples(total) ==
    {s \in [1..total -> 0..(MaxNodes - 1)] : \A a, b \in 1..total : s[a] = s[b] => a = b}

\* list(range(max_nodes))
RangeList == [i \in 1..MaxNodes |-> i - 1]

\* Variant of SliceNodes: the slice is taken from the start of the list, idx
\* is not used.
SliceFromStart(nodes, idx, n) == SubSeq(nodes, 1, Min({n, Len(nodes)}))

\* all_nodes[idx:idx + n] for idx >= 0, n >= 0: a slice stops at the end of the list.
SliceNodes(nodes, idx, n) == SubSeq(nodes, idx + 1, Min({idx + n, Len(nodes)}))

\* total_needed = sum(job.nodes for job in jobs)
TotalNeeded == SumSeq(alloc_nodes)

\* ConfigGenerator._write_workloads_allocation of mpi_replay_py, up to the
\* loop: the capacity check, then range(max_nodes), shuffled or not.
StartMpiReplay ==
    /\ alloc_pc = "start"
    /\ alloc_writer = "mpi_replay"
    /\ IF TotalNeeded > MaxNodes
       THEN /\ alloc_raised' = "ValueError"
            /\ alloc_pc' = "raised"
            /\ UNCHANGED all_nodes
       ELSE /\ \/ all_nodes' = RangeList                 \* random_allocation is off
               \/ all_nodes' \in Samples(MaxNodes)       \* random.shuffle(all_nodes)
            /\ alloc_pc' = "loop"
            /\ UNCHANGED alloc_raised
    /\ UNCHANGED <<alloc_writer, alloc_nodes, alloc_idx, alloc_lines>>
    /\ UNCHANGED beyond_alloc

\* ConfigGenerator._write_workloads_allocation of ur_milc_jacobi_lammps, up to
\* the loop: random.sample raises ValueError for a sample larger than the
\* population.
StartDfly72 ==
    /\ alloc_pc = "start"
    /\ alloc_writer = "dfly72"
    /\ IF TotalNeeded > MaxNodes
       THEN /\ alloc_raised' = "ValueError"
            /\ alloc_pc' = "raised"
            /\ UNCHANGED all_nodes
       ELSE /\ all_nodes' \in Samples(TotalNeeded)
            /\ alloc_pc' = "loop"
            /\ UNCHANGED alloc_raised
    /\ UNCHANGED <<alloc_writer, alloc_nodes, alloc_idx, alloc_lines>>
    /\ UNCHANGED beyond_alloc

\* StressTestRunner.generate_non_overlapping_allocations up to the slices:
\* the explicit check, then random.sample.
StartStress ==
    /\ alloc_pc = "start"
    /\ alloc_writer = "stress"
    /\ IF TotalNeeded > MaxNodes
       THEN /\ alloc_raised' = "ValueError"
            /\ alloc_pc' = "raised"
            /\ UNCHANGED all_nodes
       ELSE /\ all_nodes' \in Samples(TotalNeeded)
            /\ alloc_pc' = "loop"
            /\ UNCHANGED alloc_raised
    /\ UNCHANGED <<alloc_writer, alloc_nodes, alloc_idx, alloc_lines>>
    /\ UNCHANGED beyond_alloc

\* job_nodes = all_nodes[idx:idx + job.nodes]; idx += job.nodes; lines.append(...)
AppendLine ==
    /\ alloc_pc = "loop"
    /\ Len(alloc_lines) < Len(alloc_nodes)
    /\ LET n == alloc_nodes[Len(alloc_lines) + 1]
       IN /\ alloc_lines' = Append(alloc_lines, SliceNodes(all_nodes, alloc_idx, n))
          /\ alloc_idx' = alloc_idx + n
    /\ UNCHANGED <<alloc_writer, alloc_nodes, all_nodes, alloc_pc, alloc_raised>>
    /\ UNCHANGED beyond_alloc

\* The lines are written to workloads-allocation.conf (returned, for the
\* stress runner).
WriteAllocation ==
    /\ alloc_pc = "loop"
    /\ Len(alloc_lines) = Len(alloc_nodes)
    /\ alloc_pc' = "written"
    /\ UNCHANGED <<alloc_writer, alloc_nodes, all_nodes, alloc_idx, alloc_lines, alloc_raised>>
    /\ UNCHANGED beyond_alloc

AllocInit ==
    /\ ParseIdle
    /\ RunnerIdle
    /\ ExecIdle
    /\ NamesIdle
    /\ alloc_writer \in {"mpi_replay", "dfly72", "stress"}
    /\ IF alloc_writer = "stress"
       THEN alloc_nodes \in [1..AppCount -> 0..MaxNodes]
       ELSE \E n \in AllocJobCounts : alloc_nodes \in [1..n -> 0..MaxNodes]
    /\ all_nodes = <<>>
    /\ alloc_idx = 0
    /\ alloc_lines = <<>>
    /\ alloc_pc = "start"
    /\ alloc_raised = ""

AllocNext == StartMpiReplay \/ StartDfly72 \/ StartStress \/ AppendLine \/ WriteAllocation

AllocSpec == AllocInit /\ [][AllocNext]_vars

\* The (line, position) pairs of the lines written.
AllocSlots ==
    {sl \in (1..Len(alloc_lines)) \X (1..MaxNodes) : sl[2] <= Len(alloc_lines[sl[1]])}

\* C27: when the jobs' total node count is at most the network size, the
\* allocation written has one line per job, in job order, line k holds exactly
\* job k's number of node ids, every id is in [0, max_nodes), and no id occurs
\* twice; when the total exceeds the network size ValueError is raised and
\* nothing is written.
C27_AllocationNonOverlapping ==
    /\ (alloc_pc = "written") =>
          /\ TotalNeeded <= MaxNodes
          /\ Len(alloc_lines) = Len(alloc_nodes)
          /\ \A k \in 1..Len(alloc_lines) : Len(alloc_lines[k]) = alloc_nodes[k]
          /\ \A sl \in AllocSlots : alloc_lines[sl[1]][sl[2]] \in 0..(MaxNodes - 1)
          /\ \A s1, s2 \in AllocSlots :
                alloc_lines[s1[1]][s1[2]] = alloc_lines[s2[1]][s2[2]] => s1 = s2
    /\ (alloc_pc \in {"loop", "written"}) => TotalNeeded <= MaxNodes
    /\ (alloc_pc = "raised") => (TotalNeeded > MaxNodes /\ alloc_raised = "ValueError")
\* A written allocation that uses every node of the network, for two jobs or
\* more with nodes, one of them with two nodes or more, cut from a list that
\* is not in ascending order.
C27_Witness ==
    /\ alloc_pc = "written"
    /\ TotalNeeded = MaxNodes
    /\ Cardinality({k \in 1..Len(alloc_nodes) : alloc_nodes[k] > 0}) >= 2
    /\ \E k \in 1..Len(alloc_nodes) : alloc_nodes[k] >= 2
    /\ \E a \in 2..Len(all_nodes) : all_nodes[a] < all_nodes[a - 1]

\* ------------------------------------------------------ TestRunner.run_tests
\* The longest list of experiments and the most variations of one experiment.
MaxExperiments == 2
MaxVariations == 2

\* The keys of net_config_variations in the run scripts.
VariationNames == <<"high-fidelity", "app-surrogate", "app-and-network",
                    "app-and-network-freezing">>

\* An experiment is named by its position in the list; its variations are the
\* first keys of VariationNames; a single experiment (config_variations is
\* None) exists in mpi_replay_py only.
ExperimentChoices(r) ==
    {[single |-> FALSE, config_variations |-> SubSeq(VariationNames, 1, n)] :
        n \in 0..MaxVariations}
        \cup (IF r = "mpi_replay"
              THEN {[single |-> TRUE, config_variations |-> <<>>]}
              ELSE {})

ExperimentLists(r) == UNION {[1..n -> ExperimentChoices(r)] : n \in 0..MaxExperiments}

\* What one simulation does: the command exits with 0, the command exits with
\* another code or cannot be started, or the memory logger cannot be started.
RunOutcomes == {"success", "failure", "logger_failed"}

\* Variant of Raises: a logger that cannot be started is a failed run in both
\* runners.
RaisesNever(r, outcome) == FALSE

\* mpirun_do catches the exception of a logger that cannot be started and
\* returns False; execution_context raises RuntimeError, which neither
\* Execute.__call__ nor run_simulation nor the loops catch.
Raises(r, outcome) == r = "mpi_replay" /\ outcome = "logger_failed"

\* f"{exp_name}/{variation_name}" and exp_name.
FailedEntry(e, v) == IF v = "exec_output" THEN <<e>> ELSE <<e, v>>

\* The effect of one call of run_simulation / run_simulation_variation and of
\* the lines after it, up to the next loop head; swallowed: SIGINT arrived
\* inside a bare except of the cleanup, so that the SystemExit of the handler
\* was lost and only the flag stays set.
RunAndRecord(e, v, outcome, swallowed) ==
    /\ started' = Append(started, <<e, v, outcome>>)
    /\ interrupted' = swallowed
    /\ IF Raises(runner, outcome)
       THEN /\ runner_pc' = "raised"
            /\ runner_raised' = "RuntimeError"
            /\ UNCHANGED <<failed_experiments, exp_i, var_i>>
       ELSE /\ failed_experiments' = IF outcome = "success"
                                     THEN failed_experiments
                                     ELSE Append(failed_experiments, FailedEntry(e, v))
            /\ IF v = "exec_output"
               THEN exp_i' = exp_i + 1 /\ UNCHANGED var_i
               ELSE var_i' = var_i + 1 /\ UNCHANGED exp_i
            /\ UNCHANGED <<runner_pc, runner_raised>>

\* run_tests, loop over experiments: the break and the end of the list.
FinishTests ==
    /\ runner_pc = "tests"
    /\ interrupted \/ exp_i > Len(experiments)
    /\ runner_pc' = "done"
    /\ UNCHANGED <<runner, experiments, exp_i, var_i, failed_experiments, interrupted, started,
                   runner_raised>>
    /\ UNCHANGED beyond_runner

\* run_single_experiment.
RunSingleExperiment ==
    /\ runner_pc = "tests"
    /\ ~interrupted
    /\ exp_i <= Len(experiments)
    /\ experiments[exp_i].single
    /\ \E outcome \in RunOutcomes, swallowed \in BOOLEAN :
          RunAndRecord(exp_i, "exec_output", outcome, swallowed)
    /\ UNCHANGED <<runner, experiments>>
    /\ UNCHANGED beyond_runner

\* run_experiment_with_config_variations, up to its loop.
EnterVariations ==
    /\ runner_pc = "tests"
    /\ ~interrupted
    /\ exp_i <= Len(experiments)
    /\ ~experiments[exp_i].single
    /\ runner_pc' = "variations"
    /\ var_i' = 1
    /\ UNCHANGED <<runner, experiments, exp_i, failed_experiments, interrupted, started,
                   runner_raised>>
    /\ UNCHANGED beyond_runner

\* One turn of the loop over config_variations.items().
RunVariation ==
    /\ runner_pc = "variations"
    /\ ~interrupted
    /\ var_i <= Len(experiments[exp_i].config_variations)
    /\ \E outcome \in RunOutcomes, swallowed \in BOOLEAN :
          RunAndRecord(exp_i, experiments[exp_i].config_variations[var_i], outcome, swallowed)
    /\ UNCHANGED <<runner, experiments>>
    /\ UNCHANGED beyond_runner

\* The break and the end of the loop over the variations.
LeaveVariations ==
    /\ runner_pc = "variations"
    /\ interrupted \/ var_i > Len(experiments[exp_i].config_variations)
    /\ runner_pc' = "tests"
    /\ exp_i' = exp_i + 1
    /\ UNCHANGED <<runner, experiments, var_i, failed_experiments, interrupted, started,
                   runner_raised>>
    /\ UNCHANGED beyond_runner

\* _signal_handler outside the cleanup of a run: the flag is set and
\* sys.exit(1) ends the program.
Interrupt ==
    /\ runner_pc \in {"tests", "variations"}
    /\ ~interrupted
    /\ interrupted' = TRUE
    /\ runner_pc' = "exited"
    /\ UNCHANGED <<runner, experiments, exp_i, var_i, failed_experiments, started,
                   runner_raised>>
    /\ UNCHANGED beyond_runner

RunnerInit ==
    /\ ParseIdle
    /\ AllocIdle
    /\ ExecIdle
    /\ NamesIdle
    /\ runner \in {"mpi_replay", "dfly72"}
    /\ experiments \in ExperimentLists(runner)
    /\ exp_i = 1
    /\ var_i = 1
    /\ failed_experiments = <<>>
    /\ interrupted = FALSE
    /\ started = <<>>
    /\ runner_pc = "tests"
    /\ runner_raised = ""

RunnerNext ==
    \/ FinishTests
    \/ RunSingleExperiment
    \/ EnterVariations
    \/ RunVariation
    \/ LeaveVariations
    \/ Interrupt

RunnerSpec == RunnerInit /\ [][RunnerNext]_vars

RECURSIVE AllRunsFrom(_, _)
\* The simulations of the experiments from position e on, in list order.
AllRunsFrom(exps, e) ==
    IF e > Len(exps) THEN <<>>
    ELSE (IF exps[e].single
          THEN <<<<e, "exec_output">>>>
          ELSE [j \in 1..Len(exps[e].config_variations) |->
                   <<e, exps[e].config_variations[j]>>])
         \o AllRunsFrom(exps, e + 1)

\* The simulations started, without their outcomes.
StartedRuns == [k \in 1..Len(started) |-> <<started[k][1], started[k][2]>>]

IsVariationRun(x) == x[2] # "exec_output"
IsFailedVariation(x) == IsVariationRun(x) /\ x[3] # "success"
IsVariationEntry(x) == Len(x) = 2

\* The entries "<experiment>/<variation>" of the variations that returned failure.
FailedVariations ==
    LET f == SelectSeq(started, IsFailedVariation)
    IN [k \in 1..Len(f) |-> <<f[k][1], f[k][2]>>]

\* run_tests has ended, by returning or by an exception, and no interrupt was received.
EndedUninterrupted == runner_pc \in {"done", "raised"} /\ ~interrupted

AllAttempted == EndedUninterrupted => StartedRuns = AllRunsFrom(experiments, 1)

FailedListExact ==
    (runner_pc = "done") =>
        SelectSeq(failed_experiments, IsVariationEntry) = FailedVariations

NoStartOnceInterrupted == interrupted => started' = started

\* C28: as long as no interrupt is received every variation of every
\* experiment is attempted in list order whatever the outcome of the earlier
\* ones; when run_tests finishes failed_experiments holds exactly one entry
\* "<experiment>/<variation>" per variation that returned failure; once the
\* interrupted flag is set no simulation is started.
C28_ContinuesAfterFailures ==
    /\ [](AllAttempted /\ FailedListExact)
    /\ [][NoStartOnceInterrupted]_vars

\* ----------------------------------------------------------- Execute.__call__
\* The environment: a value for every name, "unset" for a name that is not
\* in the mapping.
EnvNames == {"NETWORK_SURR_ON", "APP_SURR_ON"}
EnvValues == {"unset", "0", "1"}
Environments == [EnvNames -> EnvValues]

\* os.environ.update(d)
EnvUpdate(env, d) == [k \in EnvNames |-> IF d[k] # "unset" THEN d[k] ELSE env[k]]
\* os.environ.clear()
EnvClear(env) == [k \in EnvNames |-> "unset"]

\* Variant of RestoreEnviron: the environment is not cleared before the
\* saved one is written back.
RestoreWithoutClear(env, saved) == EnvUpdate(env, saved)

\* os.environ.clear(); os.environ.update(original_env)
RestoreEnviron(env, saved) == EnvUpdate(EnvClear(env), saved)

\* execution_context up to the yield: the directory, the environment and the
\* memory logger; an exception sends it to the finally block.
EnterContext ==
    /\ exec_pc = "call"
    /\ original_cwd' = cwd
    /\ original_env' = environ
    /\ \E entry \in {"ok", "mkdir_raises", "logger_fails"} :
          CASE entry = "mkdir_raises" ->
                  /\ exec_result' = "FileNotFoundError"
                  /\ exec_pc' = "finally"
                  /\ UNCHANGED <<cwd, environ, logger_process>>
            [] entry = "logger_fails" ->
                  /\ cwd' = Append(cwd, "exec_output")
                  /\ environ' = EnvUpdate(environ, env_vars)
                  /\ exec_result' = "RuntimeError"
                  /\ exec_pc' = "finally"
                  /\ UNCHANGED logger_process
            [] OTHER ->
                  /\ cwd' = Append(cwd, "exec_output")
                  /\ environ' = EnvUpdate(environ, env_vars)
                  /\ logger_process' = "running"
                  /\ exec_pc' = "body"
                  /\ UNCHANGED exec_result
    /\ UNCHANGED <<env_vars, process, exec_interrupted>>
    /\ UNCHANGED beyond_exec

\* The body of the with statement: the interrupted flag, _execute_command and
\* _execute_with_file_output. The command exits with 0 or not, cannot be
\* started (the exception is caught), is waited for when KeyboardInterrupt
\* arrives (caught, the handle stays), or SIGINT runs the handler of the test
\* runner (interrupt(), then SystemExit).
RunCommand ==
    /\ exec_pc = "body"
    /\ IF exec_interrupted
       THEN /\ exec_result' = "False"
            /\ UNCHANGED <<process, logger_process, exec_interrupted>>
       ELSE \E run \in {"exit_0", "exit_1", "popen_raises", "keyboard_interrupt", "sigint"} :
               CASE run = "exit_0" ->
                       /\ exec_result' = "True"
                       /\ process' = "None"
                       /\ UNCHANGED <<logger_process, exec_interrupted>>
                 [] run = "exit_1" ->
                       /\ exec_result' = "False"
                       /\ process' = "None"
                       /\ UNCHANGED <<logger_process, exec_interrupted>>
                 [] run = "popen_raises" ->
                       /\ exec_result' = "False"
                       /\ UNCHANGED <<process, logger_process, exec_interrupted>>
                 [] run = "keyboard_interrupt" ->
                       /\ exec_result' = "False"
                       /\ process' = "running"
                       /\ UNCHANGED <<logger_process, exec_interrupted>>
                 [] OTHER ->
                       /\ exec_result' = "SystemExit"
                       /\ exec_interrupted' = TRUE
                       /\ process' = "None"
                       /\ logger_process' = "None"
    /\ exec_pc' = "finally"
    /\ UNCHANGED <<cwd, environ, env_vars, original_cwd, original_env>>
    /\ UNCHANGED beyond_exec

\* The finally block of execution_context: _cleanup_all, the environment and
\* the directory; then __call__ returns or the exception goes on.
Cleanup ==
    /\ exec_pc = "finally"
    /\ process' = "None"
    /\ logger_process' = "None"
    /\ environ' = RestoreEnviron(environ, original_env)
    /\ cwd' = original_cwd
    /\ exec_pc' = IF exec_result \in {"True", "False"} THEN "returned" ELSE "raised"
    /\ UNCHANGED <<env_vars, original_cwd, original_env, exec_interrupted, exec_result>>
    /\ UNCHANGED beyond_exec

ExecInit ==
    /\ ParseIdle
    /\ AllocIdle
    /\ RunnerIdle
    /\ NamesIdle
    /\ cwd \in {<<"experiments">>, <<"experiments", "01-jacobi12-milc10">>}
    /\ environ \in Environments
    /\ env_vars \in Environments
    /\ original_cwd = <<>>
    /\ original_env = <<>>
    /\ process = "None"
    /\ logger_process = "None"
    /\ exec_interrupted \in BOOLEAN
    /\ exec_pc = "call"
    /\ exec_result = ""

ExecNext == EnterContext \/ RunCommand \/ Cleanup

ExecSpec == ExecInit /\ [][ExecNext]_vars

\* C29: after Execute.__call__ has returned, on whichever path, the working
\* directory and all of os.environ are what they were before the call, and
\* the handles of the simulation and of the memory logger are None.
C29_EnvironmentRestored ==
    /\ (exec_pc = "returned") =>
          /\ cwd = original_cwd
          /\ environ = original_env
          /\ process = "None"
          /\ logger_process = "None"
    /\ (exec_pc \in {"body", "finally", "returned", "raised"}) =>
          \* original_cwd and original_env are the values before the call
          /\ original_cwd \in {<<"experiments">>, <<"experiments", "01-jacobi12-milc10">>}
          /\ original_env \in Environments
\* A call that returned False although env_vars had added a name to the
\* environment and changed the value of another.
C29_Witness ==
    /\ exec_pc = "returned"
    /\ exec_result = "False"
    /\ ~exec_interrupted
    /\ \E k \in EnvNames : original_env[k] = "unset" /\ env_vars[k] # "unset"
    /\ \E k \in EnvNames : original_env[k] # "unset" /\ env_vars[k] \notin {"unset", original_env[k]}

\* ------------------------------------------------------------ job key names
\* The most jobs of one experiment.
MaxJobs == 3

\* The job classes that number their instances, and their base names.
JobClasses == {"JacobiJob", "MilcJob", "LammpsJob"}
BaseName(c) ==
    CASE c = "JacobiJob" -> "jacobi3d"
      [] c = "MilcJob" -> "milc"
      [] OTHER -> "lammps"

\* The key_name arguments: "None" (no override), the name the second
\* generated one would get, and a name of its own.
KeyNameArgs(c) == {"None", BaseName(c) \o "-2", "custom"}

\* The name _initialize_key_name generates at counter value k.
GeneratedName(base, k) == IF k = 1 THEN base ELSE base \o "-" \o ToString(k)

\* job_id and config_filename of __post_init__.
JobId(c, key_name) == IF c = "JacobiJob" THEN "conceptual-" \o key_name ELSE key_name
ConfigFilename(c, key_name) ==
    CASE c = "JacobiJob" -> "conceptual-" \o key_name \o ".json"
      [] c = "MilcJob" -> key_name \o "_skeleton.json"
      [] OTHER -> key_name \o "_workload.json"

\* Variant of ResetCounter: the counter is left as it is.
KeepCounter(counter) == counter

\* reset_counters: cls._instance_counter = 0
ResetCounter(counter) == 0

\* A job is constructed: __post_init__ with _initialize_key_name.
ConstructJob ==
    /\ names_pc = "script"
    /\ Len(new_jobs) < MaxJobs
    /\ \E c \in JobClasses : \E arg \in KeyNameArgs(c) :
          LET counter == IF arg = "None" THEN instance_counter[c] + 1 ELSE instance_counter[c]
              key_name == IF arg = "None" THEN GeneratedName(BaseName(c), counter) ELSE arg
          IN /\ instance_counter' = [instance_counter EXCEPT ![c] = counter]
             /\ used_key_names' = [used_key_names EXCEPT ![c] = @ \cup {key_name}]
             /\ new_jobs' = Append(new_jobs, [class |-> c,
                                              generated |-> arg = "None",
                                              key_name |-> key_name,
                                              job_id |-> JobId(c, key_name),
                                              config_filename |-> ConfigFilename(c, key_name)])
    /\ UNCHANGED <<built, names_pc>>
    /\ UNCHANGED beyond_names

\* Experiment(name, [the jobs just constructed], ...): reset_all_job_counters.
ConstructExperiment ==
    /\ names_pc = "script"
    /\ built < MaxExperiments
    /\ instance_counter' = [c \in JobClasses |-> ResetCounter(instance_counter[c])]
    /\ used_key_names' = [c \in JobClasses |-> {}]
    /\ new_jobs' = <<>>
    /\ built' = built + 1
    /\ UNCHANGED names_pc
    /\ UNCHANGED beyond_names

NamesInit ==
    /\ ParseIdle
    /\ AllocIdle
    /\ RunnerIdle
    /\ ExecIdle
    /\ instance_counter = [c \in JobClasses |-> 0]
    /\ used_key_names = [c \in JobClasses |-> {}]
    /\ new_jobs = <<>>
    /\ built = 0
    /\ names_pc = "script"

NamesNext == ConstructJob \/ ConstructExperiment

NamesSpec == NamesInit /\ [][NamesNext]_vars

\* The jobs of class c constructed without a key_name for the experiment
\* that is being written, in order.
GeneratedJobs(c) == SelectSeq(new_jobs, LAMBDA job : job.class = c /\ job.generated)

\* C30: of the jobs constructed without a key_name for one experiment, the
\* k-th of a class is named "<base>" for k = 1 and "<base>-k" for k > 1, so
\* that key names, job ids and config filenames of one class are pairwise
\* distinct; this holds for the jobs of every experiment, the first and the
\* later ones, the numbering starting again after each Experiment.
C30_KeyNamesUnique ==
    \A c \in JobClasses :
        LET g == GeneratedJobs(c)
        IN /\ \A k \in 1..Len(g) :
                 g[k].key_name = IF k = 1 THEN BaseName(c)
                                 ELSE BaseName(c) \o "-" \o ToString(k)
           /\ \A a, b \in 1..Len(g) :
                 a # b => /\ g[a].key_name # g[b].key_name
                          /\ g[a].job_id # g[b].job_id
                          /\ g[a].config_filename # g[b].config_filename
\* The jobs of a later experiment with two generated names of one class, a
\* job of another class and a job with a key_name of its own.
C30_Witness ==
    /\ built >= 1
    /\ \E c \in JobClasses : Len(GeneratedJobs(c)) >= 2
    /\ \E i \in 1..Len(new_jobs) : ~new_jobs[i].generated
    /\ \E i, j \in 1..Len(new_jobs) : new_jobs[i].class # new_jobs[j].class

====
